---- MODULE Spec2Model ----
(***************************************************************************)
(* Model of the Havven deployment script (deploy.py) and of the unittest   *)
(* classes that drive the deployed contracts (tests/test_*.py).            *)
(*                                                                         *)
(* SpecDeploy : one run of deploy_havven against the execution backend.    *)
(* SpecTests  : run_tests.py running one test class against the backend.   *)
(* SpecBackend: the backend's checkpoint interface under any calls.        *)
(* SpecHelpers: assertCallReverts / assertTransactionReverts on any error. *)
(* SpecFacade : the operations of ExternStateFeeTokenInterface.            *)
(*                                                                         *)
(* utils/deployutils.py (attempt, attempt_deploy, mine_tx, mine_txs,       *)
(* take_snapshot, restore_snapshot) follows the design document; the       *)
(* Solidity contracts follow what their test classes assert about them.    *)
(***************************************************************************)
EXTENDS Integers, Sequences, FiniteSets, TLC

VARIABLES
    \* ---- deploy_havven ----
    pc,               \* index of the statement of deploy_havven to run next
    phase,            \* "run" | "await" (inside attempt_deploy / mine_txs) | "returned" | "raised"
    print_addresses,  \* the argument of deploy_havven
    contract,         \* locals havven_contract, nomin_contract, ...: artifact -> address
    txr,              \* locals hvn_txr, nom_txr, ...: artifact -> receipt (tx id)
    txs,              \* local list txs of deploy.py:35 (tx ids)
    mined,            \* how many entries of txs mine_txs has awaited
    chain,            \* the backend's transaction log of this session
    output,           \* what deploy_havven printed
    raised,           \* the exception that left deploy_havven, or NoFailure
    retval,           \* the tuple returned by deploy_havven
    failedAt,         \* history: index of the statement that failed (0: none)
    \* ---- unittest run of one test class ----
    cls,              \* the test class loaded ("" before setUpClass)
    tstate,           \* "idle" | "ready" | "body" | "teardown" | "classFailed"
    test,             \* name of the test unit being run
    ip,               \* next step of the test body
    evm,              \* backend: state of the contract deployed by setUpClass
    snaps,            \* backend: outstanding checkpoints, handle -> saved state
    nextHandle,       \* backend: the handle the next checkpoint gets
    snapshot,         \* self.snapshot of the running unit (0: not set)
    locals,           \* values the test body has read into local variables
    outcome,          \* outcome of the running unit so far
    ran,              \* number of units started
    faults,           \* number of backend faults injected so far
    log,              \* history: one record per finished unit
    restoredLog,      \* history: handles passed to a successful restore
    before,           \* history: the contract state when the running unit began
    finals,           \* history: test -> contract states at the end of its passed bodies
    lastCall,         \* history: the last call the running unit submitted
    \* ---- run_tests.py around the unittest run ----
    runner,           \* "start" | "launched" | "loaded" | "running" | "exited"
    process,          \* the ganache child process: "none" | "running" | "terminated"
    classError,       \* setUpClass raised: unittest recorded an error for the class
    exitCode,         \* the status the process exits with (-1: still running)
    \* ---- the backend's checkpoint interface driven directly ----
    restores,         \* history: one record per call of restore_snapshot
    \* ---- the two helpers of test_utils.py applied to one error signal ----
    sig,              \* what the backend raised for the call under test
    txVerdict,        \* verdict of assertTransactionReverts ("": not applied)
    callVerdict,      \* verdict of assertCallReverts ("": not applied)
    \* ---- ExternStateFeeTokenInterface driven by a test ----
    fcall,            \* the facade operation being executed, its arguments and stage
    fchain,           \* the transactions the backend has received
    fversion,         \* the backend's state: number of transactions it has executed
    fcount,           \* number of facade operations invoked
    fname             \* the argument name of ExternStateFeeTokenInterface(contract, name)

dvars == <<pc, phase, print_addresses, contract, txr, txs, mined, chain,
           output, raised, retval, failedAt>>

rvars == <<lastCall, runner, process, classError, exitCode>>

tvars == <<cls, tstate, test, ip, evm, snaps, nextHandle, snapshot, locals,
           outcome, ran, faults, log, restoredLog, before, finals, rvars>>

hvars == <<sig, txVerdict, callVerdict>>

fvars == <<fcall, fchain, fversion, fcount, fname>>

xvars == <<restores, hvars, fvars>>

vars == <<dvars, tvars, xvars>>

\* ------------------------------------------------------------------------
\* Bounds
\* ------------------------------------------------------------------------
NumAddr == 5          \* addresses the backend can hand out
MaxUnits == 3         \* test units unittest starts in one run
MaxFaults == 1        \* backend faults (timeouts, non-revert errors) in one run
MaxHandles == 2       \* checkpoints taken when the backend is driven directly
MaxRestores == 3      \* restore calls when the backend is driven directly
MaxCalls == 2         \* facade operations a test invokes

\* ------------------------------------------------------------------------
\* deploy.py
\* ------------------------------------------------------------------------
NoAddr == 0
NoTx == 0
Addr == 1..NumAddr

ArtifactNames == {"Havven", "EtherNomin", "Court", "HavvenEscrow"}

Stmt(kind, name, target, args) ==
    [kind |-> kind, name |-> name, target |-> target, args |-> args]

\* The statements of deploy_havven in program order, with a deployment one
\* submitted by Court before EtherNomin exists.
ProgramCourtFirst ==
    << Stmt("compile", "Compiling contracts... ", "", <<>>),
       Stmt("deploy", "Havven", "", <<"OWNER">>),
       Stmt("deploy", "Court", "", <<"Havven", "EtherNomin", "OWNER">>),
       Stmt("deploy", "EtherNomin", "",
            <<"Havven", "ORACLE", "LIQUIDATION_BENEFICIARY", "INITIAL_ETH_PRICE", "OWNER">>),
       Stmt("deploy", "HavvenEscrow", "", <<"OWNER", "Havven", "EtherNomin">>),
       Stmt("transact", "setNomin", "Havven", <<"EtherNomin">>),
       Stmt("transact", "setEscrow", "Havven", <<"HavvenEscrow">>),
       Stmt("transact", "setCourt", "EtherNomin", <<"Court">>),
       Stmt("mine_txs", "Linking contracts... ", "", <<>>),
       Stmt("complete", "Deployment complete.", "", <<>>),
       Stmt("print", "Addresses", "", <<"Havven", "EtherNomin", "Court", "HavvenEscrow">>),
       Stmt("return", "", "", <<>>) >>

\* ... with the escrow wired into Havven before the escrow is deployed.
ProgramLinkEarly ==
    << Stmt("compile", "Compiling contracts... ", "", <<>>),
       Stmt("deploy", "Havven", "", <<"OWNER">>),
       Stmt("deploy", "EtherNomin", "",
            <<"Havven", "ORACLE", "LIQUIDATION_BENEFICIARY", "INITIAL_ETH_PRICE", "OWNER">>),
       Stmt("deploy", "Court", "", <<"Havven", "EtherNomin", "OWNER">>),
       Stmt("transact", "setNomin", "Havven", <<"EtherNomin">>),
       Stmt("transact", "setEscrow", "Havven", <<"HavvenEscrow">>),
       Stmt("deploy", "HavvenEscrow", "", <<"OWNER", "Havven", "EtherNomin">>),
       Stmt("transact", "setCourt", "EtherNomin", <<"Court">>),
       Stmt("mine_txs", "Linking contracts... ", "", <<>>),
       Stmt("complete", "Deployment complete.", "", <<>>),
       Stmt("print", "Addresses", "", <<"Havven", "EtherNomin", "Court", "HavvenEscrow">>),
       Stmt("return", "", "", <<>>) >>

\* ... with the completion message printed before the link receipts are awaited.
ProgramCompleteEarly ==
    << Stmt("compile", "Compiling contracts... ", "", <<>>),
       Stmt("deploy", "Havven", "", <<"OWNER">>),
       Stmt("deploy", "EtherNomin", "",
            <<"Havven", "ORACLE", "LIQUIDATION_BENEFICIARY", "INITIAL_ETH_PRICE", "OWNER">>),
       Stmt("deploy", "Court", "", <<"Havven", "EtherNomin", "OWNER">>),
       Stmt("deploy", "HavvenEscrow", "", <<"OWNER", "Havven", "EtherNomin">>),
       Stmt("transact", "setNomin", "Havven", <<"EtherNomin">>),
       Stmt("transact", "setEscrow", "Havven", <<"HavvenEscrow">>),
       Stmt("transact", "setCourt", "EtherNomin", <<"Court">>),
       Stmt("complete", "Deployment complete.", "", <<>>),
       Stmt("mine_txs", "Linking contracts... ", "", <<>>),
       Stmt("print", "Addresses", "", <<"Havven", "EtherNomin", "Court", "HavvenEscrow">>),
       Stmt("return", "", "", <<>>) >>

\* The statements of deploy_havven in program order.  An argument that is an
\* artifact name stands for <that local>.address; the others are the
\* module-level constants OWNER, ORACLE, ...
Program ==
    << Stmt("compile", "Compiling contracts... ", "", <<>>),
       Stmt("deploy", "Havven", "", <<"OWNER">>),
       Stmt("deploy", "EtherNomin", "",
            <<"Havven", "ORACLE", "LIQUIDATION_BENEFICIARY", "INITIAL_ETH_PRICE", "OWNER">>),
       Stmt("deploy", "Court", "", <<"Havven", "EtherNomin", "OWNER">>),
       Stmt("deploy", "HavvenEscrow", "", <<"OWNER", "Havven", "EtherNomin">>),
       Stmt("transact", "setNomin", "Havven", <<"EtherNomin">>),
       Stmt("transact", "setEscrow", "Havven", <<"HavvenEscrow">>),
       Stmt("transact", "setCourt", "EtherNomin", <<"Court">>),
       Stmt("mine_txs", "Linking contracts... ", "", <<>>),
       Stmt("complete", "Deployment complete.", "", <<>>),
       Stmt("print", "Addresses", "", <<"Havven", "EtherNomin", "Court", "HavvenEscrow">>),
       Stmt("return", "", "", <<>>) >>

\* return havven_contract, nomin_contract, court_contract, hvn_txr, nom_txr, court_txr
Returned ==
    << [kind |-> "instance", of |-> "Havven"],
       [kind |-> "instance", of |-> "EtherNomin"],
       [kind |-> "instance", of |-> "Court"],
       [kind |-> "receipt", of |-> "Havven"],
       [kind |-> "receipt", of |-> "EtherNomin"],
       [kind |-> "receipt", of |-> "Court"] >>

\* An argument as it is evaluated when the statement runs: the address held by
\* the local at that moment (NoAddr: nothing assigned), or a constant.
Resolve(arg, held) ==
    IF arg \in ArtifactNames
      THEN [of |-> arg, isAddr |-> TRUE, val |-> held[arg]]
      ELSE [of |-> arg, isAddr |-> FALSE, val |-> NoAddr]

ResolveAll(args, held) == [i \in 1..Len(args) |-> Resolve(args[i], held)]

NoFailure == [type |-> "none", step |-> "", partial |-> {}]

\* attempt(function, args, init_string): on an error of the wrapped function,
\* re-raise with the step name attached to the failure.
attempt(init_string, result) ==
    IF result = "ok" THEN NoFailure
    ELSE [type |-> result, step |-> init_string, partial |-> {}]

\* An exception raised by a call that no attempt() wraps.
Unwrapped(result) ==
    IF result = "ok" THEN NoFailure
    ELSE [type |-> result, step |-> "", partial |-> {}]

\* Control flow of deploy_havven with every exception swallowed.
NextPhaseSwallow(failure) == "run"

\* Control flow of deploy_havven: it has no handler, so an exception of a
\* statement leaves the function at that statement.
NextPhase(failure) == IF failure = NoFailure THEN "run" ELSE "raised"

Pending == {i \in 1..Len(chain) : chain[i].status = "pending"}

UsedAddr == {chain[i].address : i \in 1..Len(chain)} \ {NoAddr}

Tx(kind, name, target, targetAddr, args) ==
    [kind |-> kind, name |-> name, target |-> target, targetAddr |-> targetAddr,
     args |-> args, status |-> "pending", address |-> NoAddr, at |-> pc]

Running == phase = "run" /\ pc \in 1..Len(Program)

Fail(failure) ==
    /\ raised' = failure
    /\ phase' = NextPhase(failure)
    /\ failedAt' = pc

\* attempt(compile_contracts, [SOLIDITY_SOURCES], "Compiling contracts... ")
Compile ==
    /\ Running /\ Program[pc].kind = "compile"
    /\ \E result \in {"ok", "CompilationError"} :
         LET f == attempt(Program[pc].name, result) IN
         IF f = NoFailure
           THEN /\ pc' = pc + 1
                /\ UNCHANGED <<phase, raised, failedAt>>
           ELSE /\ Fail(f)
                /\ pc' = IF phase' = "run" THEN pc + 1 ELSE pc
    /\ UNCHANGED <<print_addresses, contract, txr, txs, mined, chain, output, retval>>
    /\ UNCHANGED <<tvars, xvars>>

\* attempt_deploy(compiled, name, MASTER, args), first half: the constructor
\* arguments are evaluated and the deployment is submitted.
DeploySubmit ==
    /\ Running /\ Program[pc].kind = "deploy"
    /\ \E result \in {"ok", "rejected"} :
         LET f == attempt(Program[pc].name, result) IN
         IF f = NoFailure
           THEN /\ chain' = Append(chain, Tx("deploy", Program[pc].name, "", NoAddr,
                                             ResolveAll(Program[pc].args, contract)))
                /\ phase' = "await"
                /\ UNCHANGED <<pc, raised, failedAt>>
           ELSE /\ Fail(f)
                /\ pc' = IF phase' = "run" THEN pc + 1 ELSE pc
                /\ UNCHANGED chain
    /\ UNCHANGED <<print_addresses, contract, txr, txs, mined, output, retval>>
    /\ UNCHANGED <<tvars, xvars>>

\* attempt_deploy, second half: block until the receipt; a receipt that
\* signals failure, or none within the time limit, is an error of the step.
DeployFinalize ==
    /\ phase = "await" /\ Program[pc].kind = "deploy"
    /\ LET id == Len(chain) IN
       \E result \in {"ok", "receipt_failed", "BackendTimeout"} :
         LET f == attempt(Program[pc].name, result) IN
         IF f = NoFailure
           THEN \E a \in Addr \ UsedAddr :
                  /\ chain' = [chain EXCEPT ![id].status = "ok", ![id].address = a]
                  /\ contract' = [contract EXCEPT ![Program[pc].name] = a]
                  /\ txr' = [txr EXCEPT ![Program[pc].name] = id]
                  /\ phase' = "run"
                  /\ pc' = pc + 1
                  /\ UNCHANGED <<raised, failedAt>>
           ELSE /\ chain' = [chain EXCEPT ![id].status =
                                IF result = "BackendTimeout" THEN "pending" ELSE "failed"]
                /\ Fail(f)
                /\ pc' = IF phase' = "run" THEN pc + 1 ELSE pc
                /\ UNCHANGED <<contract, txr>>
    /\ UNCHANGED <<print_addresses, txs, mined, output, retval>>
    /\ UNCHANGED <<tvars, xvars>>

\* <target>.functions.<name>(<arg>.address).transact({'from': MASTER}),
\* evaluated while the list txs is built, before attempt() is called.
LinkTransact ==
    /\ Running /\ Program[pc].kind = "transact"
    /\ \E result \in {"ok", "rejected"} :
         LET f == Unwrapped(result) IN
         IF f = NoFailure
           THEN /\ chain' = Append(chain, Tx("call", Program[pc].name, Program[pc].target,
                                             contract[Program[pc].target],
                                             ResolveAll(Program[pc].args, contract)))
                /\ txs' = Append(txs, Len(chain) + 1)
                /\ pc' = pc + 1
                /\ UNCHANGED <<phase, raised, failedAt>>
           ELSE /\ Fail(f)
                /\ pc' = IF phase' = "run" THEN pc + 1 ELSE pc
                /\ UNCHANGED <<chain, txs>>
    /\ UNCHANGED <<print_addresses, contract, txr, mined, output, retval>>
    /\ UNCHANGED <<tvars, xvars>>

\* attempt(mine_txs, [txs], "Linking contracts... "): the receipts of txs are
\* awaited one after the other.
MineTxs ==
    /\ Running /\ Program[pc].kind = "mine_txs"
    /\ IF mined < Len(txs)
         THEN \E result \in {"ok", "receipt_failed", "BackendTimeout"} :
                LET f == attempt(Program[pc].name, result)
                    id == txs[mined + 1] IN
                IF f = NoFailure
                  THEN /\ chain' = [chain EXCEPT ![id].status = "ok"]
                       /\ mined' = mined + 1
                       /\ UNCHANGED <<pc, phase, raised, failedAt>>
                  ELSE /\ chain' = [chain EXCEPT ![id].status =
                                       IF result = "BackendTimeout" THEN "pending" ELSE "failed"]
                       /\ Fail(f)
                       /\ mined' = IF phase' = "run" THEN mined + 1 ELSE mined
                       /\ UNCHANGED pc
         ELSE /\ pc' = pc + 1
              /\ UNCHANGED <<chain, mined, phase, raised, failedAt>>
    /\ UNCHANGED <<print_addresses, contract, txr, txs, output, retval>>
    /\ UNCHANGED <<tvars, xvars>>

\* print("\nDeployment complete.\n")
Complete ==
    /\ Running /\ Program[pc].kind = "complete"
    /\ output' = Append(output, Program[pc].name)
    /\ pc' = pc + 1
    /\ UNCHANGED <<phase, print_addresses, contract, txr, txs, mined, chain,
                   raised, retval, failedAt>>
    /\ UNCHANGED <<tvars, xvars>>

\* if print_addresses: print(...)
PrintAddresses ==
    /\ Running /\ Program[pc].kind = "print"
    /\ output' = IF print_addresses THEN Append(output, Program[pc].name) ELSE output
    /\ pc' = pc + 1
    /\ UNCHANGED <<phase, print_addresses, contract, txr, txs, mined, chain,
                   raised, retval, failedAt>>
    /\ UNCHANGED <<tvars, xvars>>

\* return havven_contract, ..., court_txr
Return ==
    /\ Running /\ Program[pc].kind = "return"
    /\ retval' = [i \in 1..Len(Returned) |->
                    [kind |-> Returned[i].kind, of |-> Returned[i].of,
                     val |-> IF Returned[i].kind = "instance"
                               THEN contract[Returned[i].of] ELSE txr[Returned[i].of]]]
    /\ phase' = "returned"
    /\ UNCHANGED <<pc, print_addresses, contract, txr, txs, mined, chain,
                   output, raised, failedAt>>
    /\ UNCHANGED <<tvars, xvars>>

InitDeploy ==
    /\ pc = 1
    /\ phase = "run"
    /\ print_addresses \in BOOLEAN
    /\ contract = [a \in ArtifactNames |-> NoAddr]
    /\ txr = [a \in ArtifactNames |-> NoTx]
    /\ txs = <<>>
    /\ mined = 0
    /\ chain = <<>>
    /\ output = <<"Deployment initiated.">>
    /\ raised = NoFailure
    /\ retval = <<>>
    /\ failedAt = 0

NextDeploy ==
    \/ Compile
    \/ DeploySubmit
    \/ DeployFinalize
    \/ LinkTransact
    \/ MineTxs
    \/ Complete
    \/ PrintAddresses
    \/ Return

\* ------------------------------------------------------------------------
\* The backend as the test classes see it: accounts, the contracts deployed
\* by setUpClass, checkpoints
\* ------------------------------------------------------------------------
\* 10**18 in utils/deployutils.py; scaled so that UNIT \div 20, the fee rate
\* of TestERC20FeeToken.setUpClass, is 1.
UNIT == 20

\* MASTER, DUMMY, ZERO_ADDRESS and W3.eth.accounts[1..6]
Accounts == {"MASTER", "DUMMY", "ZERO_ADDRESS", "A1", "A2", "A3", "A4", "A5", "A6"}

TestClasses == {"TestOwned", "TestERC20FeeToken", "TestTokenState"}

\* State of the contract right after the deployment in setUpClass:
\*   Owned(MASTER); TokenState(MASTER, DUMMY);
\*   ERC20FeeToken("Test Fee Token", "TSTFE", 1000 * UNIT, MASTER, UNIT//20, MASTER, MASTER)
Deployed(c) ==
    [owner |-> "MASTER",
     associatedContract |-> IF c = "TestTokenState" THEN "DUMMY" ELSE "ZERO_ADDRESS",
     balanceOf |-> [a \in Accounts |->
                      IF c = "TestERC20FeeToken" /\ a = "MASTER" THEN 1000 * UNIT ELSE 0],
     allowance |-> [p \in Accounts \X Accounts |-> 0],
     totalSupply |-> IF c = "TestERC20FeeToken" THEN 1000 * UNIT ELSE 0,
     transferFeeRate |-> IF c = "TestERC20FeeToken" THEN UNIT \div 20 ELSE 0,
     feePool |-> 0,
     feeAuthority |-> IF c = "TestERC20FeeToken" THEN "MASTER" ELSE "ZERO_ADDRESS"]

\* A call of a mutating contract function: fn(a, b, v) sent by sender.
Txn(fn, sender, a, b, v) == [fn |-> fn, sender |-> sender, a |-> a, b |-> b, v |-> v]
NoTxn == Txn("", "", "", "", 0)

\* ERC20FeeToken views transferFeeIncurred and transferPlusFee
transferFeeIncurred(e, value) == (value * e.transferFeeRate) \div UNIT
transferPlusFee(e, value) == value + transferFeeIncurred(e, value)

\* A TokenState that lets its owner write balances and allowances too.
AcceptsOwnerWrites(e, tx) ==
    CASE tx.fn = "setOwner" -> tx.sender = e.owner
      [] tx.fn = "setAssociatedContract" -> tx.sender = e.owner
      [] tx.fn = "setBalanceOf" -> tx.sender \in {e.associatedContract, e.owner}
      [] tx.fn = "setAllowance" -> tx.sender \in {e.associatedContract, e.owner}
      [] tx.fn = "setTransferFeeRate" -> tx.sender = e.owner
      [] tx.fn = "transfer" -> e.balanceOf[tx.sender] >= transferPlusFee(e, tx.v)
      [] tx.fn = "approve" -> TRUE
      [] tx.fn = "transferFrom" ->
            /\ e.balanceOf[tx.a] >= transferPlusFee(e, tx.v)
            /\ e.allowance[<<tx.a, tx.sender>>] >= transferPlusFee(e, tx.v)
      [] tx.fn = "withdrawFee" -> tx.sender = e.feeAuthority /\ e.feePool >= tx.v
      [] OTHER -> FALSE

\* Whether the contract accepts the call; when it does not, the backend
\* raises the "revert" error and the state is as before.
Accepts(e, tx) ==
    CASE tx.fn = "setOwner" -> tx.sender = e.owner
      [] tx.fn = "setAssociatedContract" -> tx.sender = e.owner
      [] tx.fn = "setBalanceOf" -> tx.sender = e.associatedContract
      [] tx.fn = "setAllowance" -> tx.sender = e.associatedContract
      [] tx.fn = "setTransferFeeRate" -> tx.sender = e.owner
      [] tx.fn = "transfer" -> e.balanceOf[tx.sender] >= transferPlusFee(e, tx.v)
      [] tx.fn = "approve" -> TRUE
      [] tx.fn = "transferFrom" ->
            /\ e.balanceOf[tx.a] >= transferPlusFee(e, tx.v)
            /\ e.allowance[<<tx.a, tx.sender>>] >= transferPlusFee(e, tx.v)
      [] tx.fn = "withdrawFee" -> tx.sender = e.feeAuthority /\ e.feePool >= tx.v
      [] OTHER -> FALSE

\* A token whose transfers charge the fee without adding it to the pool.
EffectFeeBurnt(e, tx) ==
    CASE tx.fn = "setTransferFeeRate" -> [e EXCEPT !.transferFeeRate = tx.v]
      [] tx.fn = "transfer" ->
            LET debited == [e.balanceOf EXCEPT ![tx.sender] = @ - transferPlusFee(e, tx.v)] IN
            [e EXCEPT !.balanceOf = [debited EXCEPT ![tx.a] = @ + tx.v]]
      [] tx.fn = "approve" -> [e EXCEPT !.allowance[<<tx.sender, tx.a>>] = tx.v]
      [] tx.fn = "transferFrom" ->
            LET debited == [e.balanceOf EXCEPT ![tx.a] = @ - transferPlusFee(e, tx.v)] IN
            [e EXCEPT !.balanceOf = [debited EXCEPT ![tx.b] = @ + tx.v],
                      !.allowance[<<tx.a, tx.sender>>] = @ - transferPlusFee(e, tx.v)]
      [] tx.fn = "withdrawFee" ->
            [e EXCEPT !.feePool = @ - tx.v, !.balanceOf[tx.a] = @ + tx.v]
      [] OTHER -> e

\* The state after an accepted call.
Effect(e, tx) ==
    CASE tx.fn = "setOwner" -> [e EXCEPT !.owner = tx.a]
      [] tx.fn = "setAssociatedContract" -> [e EXCEPT !.associatedContract = tx.a]
      [] tx.fn = "setBalanceOf" -> [e EXCEPT !.balanceOf[tx.a] = tx.v]
      [] tx.fn = "setAllowance" -> [e EXCEPT !.allowance[<<tx.a, tx.b>>] = tx.v]
      [] tx.fn = "setTransferFeeRate" -> [e EXCEPT !.transferFeeRate = tx.v]
      [] tx.fn = "transfer" ->
            LET debited == [e.balanceOf EXCEPT ![tx.sender] = @ - transferPlusFee(e, tx.v)] IN
            [e EXCEPT !.balanceOf = [debited EXCEPT ![tx.a] = @ + tx.v],
                      !.feePool = @ + transferFeeIncurred(e, tx.v)]
      [] tx.fn = "approve" -> [e EXCEPT !.allowance[<<tx.sender, tx.a>>] = tx.v]
      [] tx.fn = "transferFrom" ->
            LET debited == [e.balanceOf EXCEPT ![tx.a] = @ - transferPlusFee(e, tx.v)] IN
            [e EXCEPT !.balanceOf = [debited EXCEPT ![tx.b] = @ + tx.v],
                      !.allowance[<<tx.a, tx.sender>>] = @ - transferPlusFee(e, tx.v),
                      !.feePool = @ + transferFeeIncurred(e, tx.v)]
      [] tx.fn = "withdrawFee" ->
            [e EXCEPT !.feePool = @ - tx.v, !.balanceOf[tx.a] = @ + tx.v]
      [] OTHER -> e

Backend(e, s, n) == [evm |-> e, snaps |-> s, nextHandle |-> n, handle |-> 0, error |-> ""]

\* take_snapshot(): the backend saves its state and returns a new handle.
take_snapshot(b) ==
    [evm |-> b.evm,
     snaps |-> [h \in DOMAIN b.snaps \cup {b.nextHandle} |->
                  IF h = b.nextHandle THEN b.evm ELSE b.snaps[h]],
     nextHandle |-> b.nextHandle + 1,
     handle |-> b.nextHandle,
     error |-> ""]

\* restore_snapshot(h) that leaves the handle usable.
restore_snapshotKeep(b, h) ==
    IF h \in DOMAIN b.snaps
      THEN [evm |-> b.snaps[h], snaps |-> b.snaps, nextHandle |-> b.nextHandle,
            handle |-> h, error |-> ""]
      ELSE [b EXCEPT !.handle = 0, !.error = "InvalidSnapshotError"]

\* restore_snapshot(h): the backend returns to the state saved under h; h and
\* the checkpoints taken after it are consumed.  An unknown or consumed
\* handle is an InvalidSnapshotError.
restore_snapshot(b, h) ==
    IF h \in DOMAIN b.snaps
      THEN [evm |-> b.snaps[h],
            snaps |-> [k \in {j \in DOMAIN b.snaps : j < h} |-> b.snaps[k]],
            nextHandle |-> b.nextHandle,
            handle |-> h,
            error |-> ""]
      ELSE [b EXCEPT !.handle = 0, !.error = "InvalidSnapshotError"]

\* setUp of a class without one.
setUpNone(c, b) == b

\* setUp: TestTokenState takes a checkpoint and keeps the handle in
\* self.snapshot; TestOwned and TestERC20FeeToken define no setUp.
setUp(c, b) == IF c = "TestTokenState" THEN take_snapshot(b) ELSE b

\* tearDown of a class without one.
tearDownNone(c, b, h) == b

\* tearDown: TestTokenState restores self.snapshot; TestOwned and
\* TestERC20FeeToken define no tearDown.
tearDown(c, b, h) == IF c = "TestTokenState" THEN restore_snapshot(b, h) ELSE b

\* ------------------------------------------------------------------------
\* The test bodies, one step at a time.  A step is
\*   read     the view calls that fill the locals (l.pre: the state they saw)
\*   tx       mine_tx(f.transact({'from': sender})): an error ends the unit
\*   reverts  assertTransactionReverts(self, f, sender) / self.assertReverts
\*   assert   a run of assertEqual calls with no call in between
\* ------------------------------------------------------------------------
S_read == [kind |-> "read", tx |-> NoTxn, ok |-> TRUE]
S_read_fee_pool == [kind |-> "read_fee_pool", tx |-> NoTxn, ok |-> TRUE]
S_tx(tx) == [kind |-> "tx", tx |-> tx, ok |-> TRUE]
S_reverts(tx) == [kind |-> "reverts", tx |-> tx, ok |-> TRUE]
S_assert(cond) == [kind |-> "assert", tx |-> NoTxn, ok |-> cond]

NoLocals == [pre |-> Deployed(""), fee_pool |-> 0]

\* TestOwned
Owned_test_owner_is_master(i, e, l) == S_assert(e.owner = "MASTER")

Owned_test_change_owner(i, e, l) ==
    CASE i = 1 -> S_read
      [] i = 2 -> S_tx(Txn("setOwner", "MASTER", "DUMMY", "", 0))
      [] i = 3 -> S_assert(e.owner = "DUMMY")
      [] OTHER -> S_tx(Txn("setOwner", "DUMMY", l.pre.owner, "", 0))

Owned_test_change_invalid_owner(i, e, l) ==
    S_reverts(Txn("setOwner", "DUMMY", "DUMMY", "", 0))

\* TestTokenState (self.owner = MASTER, self.associate = DUMMY)
TokenState_test_constructor(i, e, l) ==
    S_assert(e.owner = "MASTER" /\ e.associatedContract = "DUMMY")

TokenState_test_setAssociatedContract(i, e, l) ==
    CASE i = 1 -> S_reverts(Txn("setAssociatedContract", "DUMMY", "ZERO_ADDRESS", "", 0))
      [] i = 2 -> S_assert(e.balanceOf["DUMMY"] = 0)
      [] i = 3 -> S_tx(Txn("setBalanceOf", "DUMMY", "DUMMY", "", UNIT))
      [] i = 4 -> S_tx(Txn("setAssociatedContract", "MASTER", "ZERO_ADDRESS", "", 0))
      [] OTHER -> S_assert(/\ e.associatedContract = "ZERO_ADDRESS"
                           /\ e.balanceOf["DUMMY"] = UNIT)

TokenState_test_setAllowance(i, e, l) ==
    CASE i = 1 -> S_assert(e.allowance[<<"MASTER", "DUMMY">>] = 0)
      [] i = 2 -> S_tx(Txn("setAllowance", "DUMMY", "MASTER", "DUMMY", UNIT))
      [] i = 3 -> S_assert(e.allowance[<<"MASTER", "DUMMY">>] = UNIT)
      [] OTHER -> S_reverts(Txn("setAllowance", "MASTER", "MASTER", "DUMMY", UNIT))

TokenState_test_setBalanceOf(i, e, l) ==
    CASE i = 1 -> S_assert(e.balanceOf["MASTER"] = 0)
      [] i = 2 -> S_tx(Txn("setBalanceOf", "DUMMY", "MASTER", "", UNIT))
      [] i = 3 -> S_assert(e.balanceOf["MASTER"] = UNIT)
      [] OTHER -> S_reverts(Txn("setBalanceOf", "MASTER", "MASTER", "", 2 * UNIT))

\* TestERC20FeeToken
FeeToken_test_constructor(i, e, l) ==
    S_assert(/\ e.totalSupply = 1000 * UNIT
             /\ e.balanceOf["MASTER"] = 1000 * UNIT
             /\ e.transferFeeRate = UNIT \div 20
             /\ e.feeAuthority = "MASTER")

FeeToken_test_getSetTransferFeeRate(i, e, l) ==
    CASE i = 1 -> S_read
      [] i = 2 -> S_reverts(Txn("setTransferFeeRate", "A1", "", "",
                                l.pre.transferFeeRate + UNIT \div 20))
      [] i = 3 -> S_tx(Txn("setTransferFeeRate", l.pre.owner, "", "",
                           l.pre.transferFeeRate + UNIT \div 20))
      [] OTHER -> S_assert(e.transferFeeRate = l.pre.transferFeeRate + UNIT \div 20)

\* fee = value * rate / UNIT is a Python float: it equals the contract's
\* integer only when the division is exact.
FeeToken_test_transferFeeIncurred(i, e, l) ==
    S_assert(/\ (10 * UNIT * e.transferFeeRate) % UNIT = 0
             /\ transferFeeIncurred(e, 10 * UNIT) = (10 * UNIT * e.transferFeeRate) \div UNIT)

FeeToken_test_transferPlusFee(i, e, l) ==
    S_assert(/\ (10 * UNIT * e.transferFeeRate) % UNIT = 0
             /\ transferPlusFee(e, 10 * UNIT) =
                   10 * UNIT + (10 * UNIT * e.transferFeeRate) \div UNIT)

FeeToken_test_transfer(i, e, l) ==
    CASE i = 1 -> S_read
      [] i = 2 -> S_tx(Txn("transfer", "MASTER", "A1", "", UNIT))
      [] OTHER -> S_assert(/\ e.balanceOf["A1"] = l.pre.balanceOf["A1"] + UNIT
                           /\ e.balanceOf["MASTER"] =
                                l.pre.balanceOf["MASTER"] - transferPlusFee(l.pre, UNIT)
                           /\ e.totalSupply = l.pre.totalSupply
                           /\ e.feePool = l.pre.feePool + transferFeeIncurred(l.pre, UNIT))

FeeToken_test_fail_transfer(i, e, l) ==
    CASE i = 1 -> S_read
      [] i = 2 -> S_reverts(Txn("transfer", "A2", "MASTER", "", UNIT))
      [] OTHER -> S_assert(/\ e.balanceOf["A2"] = l.pre.balanceOf["A2"]
                           /\ e.balanceOf["MASTER"] = l.pre.balanceOf["MASTER"]
                           /\ e.totalSupply = l.pre.totalSupply
                           /\ e.feePool = l.pre.feePool)

FeeToken_test_approve(i, e, l) ==
    CASE i = 1 -> S_tx(Txn("approve", "MASTER", "A1", "", UNIT))
      [] OTHER -> S_assert(e.allowance[<<"MASTER", "A1">>] = UNIT)

FeeToken_test_transferFrom(i, e, l) ==
    CASE i = 1 -> S_read
      [] i = 2 -> S_tx(Txn("approve", "MASTER", "A5", "", transferPlusFee(l.pre, UNIT)))
      [] i = 3 -> S_assert(e.allowance[<<"MASTER", "A5">>] = transferPlusFee(l.pre, UNIT))
      [] i = 4 -> S_tx(Txn("transferFrom", "A5", "MASTER", "A6", UNIT))
      [] OTHER -> S_assert(/\ e.balanceOf["MASTER"] =
                                l.pre.balanceOf["MASTER"] - transferPlusFee(l.pre, UNIT)
                           /\ e.balanceOf["A5"] = l.pre.balanceOf["A5"]
                           /\ e.balanceOf["A6"] = l.pre.balanceOf["A6"] + UNIT
                           /\ e.totalSupply = l.pre.totalSupply
                           /\ e.feePool = l.pre.feePool + transferFeeIncurred(l.pre, UNIT))

FeeToken_test_transferFrom_invalid(i, e, l) ==
    CASE i = 1 -> S_read
      [] i = 2 -> S_tx(Txn("approve", "A4", "A5", "", UNIT))
      [] i = 3 -> S_reverts(Txn("transferFrom", "A5", "A4", "A6", UNIT))
      [] OTHER -> S_assert(/\ e.balanceOf["A4"] = l.pre.balanceOf["A4"]
                           /\ e.balanceOf["A5"] = l.pre.balanceOf["A5"]
                           /\ e.balanceOf["A6"] = l.pre.balanceOf["A6"]
                           /\ e.totalSupply = l.pre.totalSupply
                           /\ e.feePool = l.pre.feePool)

FeeToken_test_withdrawFee(i, e, l) ==
    CASE i = 1 -> S_read
      [] i = 2 -> S_tx(Txn("transfer", "MASTER", "A1", "", 500 * UNIT))
      [] i = 3 -> S_assert(/\ e.balanceOf["A1"] = l.pre.balanceOf["A1"] + 500 * UNIT
                           /\ e.balanceOf["MASTER"] =
                                l.pre.balanceOf["MASTER"] - transferPlusFee(l.pre, 500 * UNIT)
                           /\ e.totalSupply = l.pre.totalSupply
                           /\ e.feePool = l.pre.feePool + transferFeeIncurred(l.pre, 500 * UNIT))
      [] i = 4 -> S_read_fee_pool
      [] i = 5 -> S_reverts(Txn("withdrawFee", "A3", "A3", "", l.fee_pool))
      [] i = 6 -> S_tx(Txn("withdrawFee", "MASTER", "A2", "", l.fee_pool))
      [] OTHER -> S_assert(/\ e.feePool = 0
                           /\ e.balanceOf["A2"] = l.pre.balanceOf["A2"] + l.fee_pool
                           /\ e.totalSupply = l.pre.totalSupply)

\* The test methods of a class (what TestLoader finds) and their lengths.
Tests(c) ==
    CASE c = "TestOwned" ->
            {"test_owner_is_master", "test_change_owner", "test_change_invalid_owner"}
      [] c = "TestTokenState" ->
            {"test_constructor", "test_setAssociatedContract", "test_setAllowance",
             "test_setBalanceOf"}
      [] c = "TestERC20FeeToken" ->
            {"test_constructor", "test_getSetTransferFeeRate", "test_transferFeeIncurred",
             "test_transferPlusFee", "test_transfer", "test_fail_transfer", "test_approve",
             "test_transferFrom", "test_transferFrom_invalid", "test_withdrawFee"}
      [] OTHER -> {}

BodyLen(c, t) ==
    CASE c = "TestOwned" /\ t = "test_change_owner" -> 4
      [] c = "TestTokenState" /\ t = "test_setAssociatedContract" -> 5
      [] c = "TestTokenState" /\ t \in {"test_setAllowance", "test_setBalanceOf"} -> 4
      [] c = "TestERC20FeeToken" /\ t = "test_getSetTransferFeeRate" -> 4
      [] c = "TestERC20FeeToken" /\ t \in {"test_transfer", "test_fail_transfer"} -> 3
      [] c = "TestERC20FeeToken" /\ t = "test_approve" -> 2
      [] c = "TestERC20FeeToken" /\ t = "test_transferFrom" -> 5
      [] c = "TestERC20FeeToken" /\ t = "test_transferFrom_invalid" -> 4
      [] c = "TestERC20FeeToken" /\ t = "test_withdrawFee" -> 7
      [] OTHER -> 1

Step(c, t, i, e, l) ==
    CASE c = "TestOwned" /\ t = "test_owner_is_master" -> Owned_test_owner_is_master(i, e, l)
      [] c = "TestOwned" /\ t = "test_change_owner" -> Owned_test_change_owner(i, e, l)
      [] c = "TestOwned" /\ t = "test_change_invalid_owner" ->
            Owned_test_change_invalid_owner(i, e, l)
      [] c = "TestTokenState" /\ t = "test_constructor" -> TokenState_test_constructor(i, e, l)
      [] c = "TestTokenState" /\ t = "test_setAssociatedContract" ->
            TokenState_test_setAssociatedContract(i, e, l)
      [] c = "TestTokenState" /\ t = "test_setAllowance" -> TokenState_test_setAllowance(i, e, l)
      [] c = "TestTokenState" /\ t = "test_setBalanceOf" -> TokenState_test_setBalanceOf(i, e, l)
      [] c = "TestERC20FeeToken" /\ t = "test_constructor" -> FeeToken_test_constructor(i, e, l)
      [] c = "TestERC20FeeToken" /\ t = "test_getSetTransferFeeRate" ->
            FeeToken_test_getSetTransferFeeRate(i, e, l)
      [] c = "TestERC20FeeToken" /\ t = "test_transferFeeIncurred" ->
            FeeToken_test_transferFeeIncurred(i, e, l)
      [] c = "TestERC20FeeToken" /\ t = "test_transferPlusFee" ->
            FeeToken_test_transferPlusFee(i, e, l)
      [] c = "TestERC20FeeToken" /\ t = "test_transfer" -> FeeToken_test_transfer(i, e, l)
      [] c = "TestERC20FeeToken" /\ t = "test_fail_transfer" ->
            FeeToken_test_fail_transfer(i, e, l)
      [] c = "TestERC20FeeToken" /\ t = "test_approve" -> FeeToken_test_approve(i, e, l)
      [] c = "TestERC20FeeToken" /\ t = "test_transferFrom" ->
            FeeToken_test_transferFrom(i, e, l)
      [] c = "TestERC20FeeToken" /\ t = "test_transferFrom_invalid" ->
            FeeToken_test_transferFrom_invalid(i, e, l)
      [] OTHER -> FeeToken_test_withdrawFee(i, e, l)

\* ------------------------------------------------------------------------
\* unittest running the units of one class
\* ------------------------------------------------------------------------
\* What the backend answers to a submitted call: "accepted", the "revert"
\* error of the contract, or the injected fault (the call ran out of gas, or
\* no receipt came within the time limit).
BackendResponse(e, tx, fault) ==
    IF fault # "ok" THEN fault
    ELSE IF Accepts(e, tx) THEN "accepted" ELSE "revert"

\* A backend that collects the fee of a call it rejects.
AppliedFeeOnReject(e, tx, resp) ==
    IF resp = "accepted" THEN Effect(e, tx)
    ELSE [e EXCEPT !.feePool = @ + transferFeeIncurred(e, tx.v)]

\* The contract state after the backend has answered: only an accepted call
\* is applied.
Applied(e, tx, resp) == IF resp = "accepted" THEN Effect(e, tx) ELSE e

\* What the caller of transact()/mine_tx()/call() sees raised: the exception
\* type, whether args[0] is a dictionary, whether its 'message' contains
\* "revert", its 'code', and the call that raised it.
Sig(exc, isDict, revert, code, at) ==
    [exc |-> exc, isDict |-> isDict, revert |-> revert, code |-> code, at |-> at]

NoError == Sig("none", FALSE, FALSE, 0, "")

REVERT_CODE == -32000

SignalOf(resp) ==
    CASE resp = "accepted" -> NoError
      [] resp = "revert" -> Sig("ValueError", TRUE, TRUE, REVERT_CODE, "transact")
      [] resp = "OutOfGas" -> Sig("ValueError", TRUE, FALSE, REVERT_CODE, "transact")
      [] OTHER -> Sig("BackendTimeout", FALSE, FALSE, 0, "mine_tx")

\* mine_tx(f.transact(...)) in a test body: any error ends the unit as an error.
mine_tx(resp) == IF resp = "accepted" THEN "pass" ELSE "error"

\* The unit passes a "with assertRaises" block that raised nothing.
assertTransactionRevertsLenient(g) ==
    IF g.exc = "none" THEN "pass"
    ELSE IF g.exc # "ValueError" THEN "error"
    ELSE IF ~g.isDict THEN "error"
    ELSE IF ~g.revert THEN "fail"
    ELSE IF g.code # REVERT_CODE THEN "fail"
    ELSE "pass"

\* The helper without its last line: any code is taken for a rejection.
assertTransactionRevertsAnyCode(g) ==
    IF g.exc = "none" THEN "fail"
    ELSE IF g.exc # "ValueError" THEN "error"
    ELSE IF ~g.isDict THEN "error"
    ELSE IF ~g.revert THEN "fail"
    ELSE "pass"

\* The helper with function.transact(...) evaluated before the with block:
\* what transact raises leaves the helper as an error.
assertTransactionRevertsAwaitOnly(g) ==
    IF g.exc # "none" /\ g.at = "transact" THEN "error"
    ELSE IF g.exc = "none" THEN "fail"
    ELSE IF g.exc # "ValueError" THEN "error"
    ELSE IF ~g.isDict THEN "error"
    ELSE IF ~g.revert THEN "fail"
    ELSE IF g.code # REVERT_CODE THEN "fail"
    ELSE "pass"

\* assertTransactionReverts(testcase, function, caller): the verdict of the
\* unit after the helper, from what transact() or mine_tx() raised.
assertTransactionReverts(g) ==
    \* with testcase.assertRaises(ValueError) as error:
    \*     mine_tx(function.transact({'from': caller, 'gas': gas}))
    IF g.exc = "none" THEN "fail"
    ELSE IF g.exc # "ValueError" THEN "error"
    \* error.exception.args[0]['message'] of something that is no dictionary
    ELSE IF ~g.isDict THEN "error"
    \* testcase.assertTrue("revert" in error.exception.args[0]['message'])
    ELSE IF ~g.revert THEN "fail"
    \* testcase.assertEqual(-32000, error.exception.args[0]['code'])
    ELSE IF g.code # REVERT_CODE THEN "fail"
    ELSE "pass"

\* assertCallReverts(testcase, function): the verdict of the unit after the
\* helper, from what function.call() raised.
assertCallReverts(g) ==
    \* with testcase.assertRaises(ValueError) as error:
    \*     function.call()
    IF g.exc = "none" THEN "fail"
    ELSE IF g.exc # "ValueError" THEN "error"
    ELSE IF ~g.isDict THEN "error"
    \* testcase.assertTrue("revert" in error.exception.args[0]['message'])
    ELSE IF ~g.revert THEN "fail"
    \* testcase.assertEqual(-32000, error.exception.args[0]['code'])
    ELSE IF g.code # REVERT_CODE THEN "fail"
    ELSE "pass"

\* One step of a test body: the state, the locals and the verdict after it,
\* and what the backend raised.
Exec(s, e, l, fault) ==
    LET resp == BackendResponse(e, s.tx, fault) IN
    CASE s.kind = "read" ->
            [evm |-> e, locals |-> [l EXCEPT !.pre = e], verdict |-> "pass",
             sig |-> NoError]
      [] s.kind = "read_fee_pool" ->
            [evm |-> e, locals |-> [l EXCEPT !.fee_pool = e.feePool], verdict |-> "pass",
             sig |-> NoError]
      [] s.kind = "assert" ->
            [evm |-> e, locals |-> l, verdict |-> IF s.ok THEN "pass" ELSE "fail",
             sig |-> NoError]
      [] s.kind = "tx" ->
            [evm |-> Applied(e, s.tx, resp), locals |-> l, verdict |-> mine_tx(resp),
             sig |-> SignalOf(resp)]
      [] OTHER ->
            [evm |-> Applied(e, s.tx, resp), locals |-> l,
             verdict |-> assertTransactionReverts(SignalOf(resp)),
             sig |-> SignalOf(resp)]

FaultsOf(kind) ==
    CASE kind = "tx" -> {"BackendTimeout"}
      [] kind = "reverts" -> {"BackendTimeout", "OutOfGas"}
      [] OTHER -> {}

\* The last call of a unit: the step, the call, what the backend raised, the
\* verdict, and the contract state before and after.
Call(kind, tx, g, verdict, pre, post) ==
    [kind |-> kind, tx |-> tx, sig |-> g, verdict |-> verdict, pre |-> pre, post |-> post]

NoCall == Call("", NoTxn, NoError, "", Deployed(""), Deployed(""))

\* setUpClass: compile and deploy the contract of the class.
SetUpClass ==
    /\ runner = "running"
    /\ tstate = "idle"
    /\ \E c \in TestClasses :
         /\ cls' = c
         /\ \/ /\ evm' = Deployed(c)
               /\ tstate' = "ready"
               /\ UNCHANGED <<classError, faults>>
            \/ /\ faults < MaxFaults
               /\ faults' = faults + 1
               /\ classError' = TRUE
               /\ tstate' = "classFailed"
               /\ UNCHANGED evm
    /\ UNCHANGED <<test, ip, snaps, nextHandle, snapshot, locals, outcome, ran,
                   log, restoredLog, before, finals, lastCall, runner, process,
                   exitCode>>
    /\ UNCHANGED <<dvars, xvars>>

\* unittest starts a unit: a fresh instance of the class, then setUp.  When
\* setUp raises, the unit is an error and neither body nor tearDown run.
StartUnit ==
    /\ runner = "running"
    /\ tstate = "ready"
    /\ ran < MaxUnits
    /\ \E t \in Tests(cls) :
         LET b0 == Backend(evm, snaps, nextHandle)
             b == setUp(cls, b0) IN
         /\ test' = t
         /\ ran' = ran + 1
         /\ before' = evm
         /\ \/ /\ evm' = b.evm
               /\ snaps' = b.snaps
               /\ nextHandle' = b.nextHandle
               /\ snapshot' = b.handle
               /\ tstate' = "body"
               /\ ip' = 1
               /\ outcome' = "pass"
               /\ locals' = NoLocals
               /\ UNCHANGED <<faults, log>>
            \/ /\ b # b0
               /\ faults < MaxFaults
               /\ faults' = faults + 1
               /\ log' = Append(log, [test |-> t, outcome |-> "error", setUp |-> FALSE,
                                       mismatch |-> FALSE, restored |-> FALSE])
               /\ UNCHANGED <<evm, snaps, nextHandle, snapshot, tstate, ip, outcome, locals>>
    /\ UNCHANGED <<cls, restoredLog, finals, rvars>>
    /\ UNCHANGED <<dvars, xvars>>

\* The next step of the test body; the unit leaves the body at its end or at
\* the first failed assertion or error.
BodyStep ==
    /\ tstate = "body"
    /\ LET s == Step(cls, test, ip, evm, locals) IN
       \E fault \in {"ok"} \cup {f \in FaultsOf(s.kind) : faults < MaxFaults} :
         LET r == Exec(s, evm, locals, fault) IN
         /\ evm' = r.evm
         /\ locals' = r.locals
         /\ outcome' = r.verdict
         /\ faults' = IF fault = "ok" THEN faults ELSE faults + 1
         /\ lastCall' = IF s.kind \in {"tx", "reverts"}
                          THEN Call(s.kind, s.tx, r.sig, r.verdict, evm, r.evm)
                          ELSE lastCall
         /\ IF r.verdict = "pass" /\ ip < BodyLen(cls, test)
              THEN ip' = ip + 1 /\ UNCHANGED tstate
              ELSE tstate' = "teardown" /\ UNCHANGED ip
    /\ UNCHANGED <<cls, test, snaps, nextHandle, snapshot, ran, log, restoredLog,
                   before, finals, runner, process, classError, exitCode>>
    /\ UNCHANGED <<dvars, xvars>>

\* The expected rejection did not occur: the call handed to
\* assertTransactionReverts was accepted.
RejectionMismatch(c) == c.kind = "reverts" /\ c.sig.exc = "none"

\* unittest runs tearDown after the body whatever its outcome, and records
\* the unit's result; an error in tearDown makes the unit an error.
TearDown ==
    /\ tstate = "teardown"
    /\ LET b == tearDown(cls, Backend(evm, snaps, nextHandle), snapshot)
           o == IF b.error # "" THEN "error" ELSE outcome IN
       /\ evm' = b.evm
       /\ snaps' = b.snaps
       /\ nextHandle' = b.nextHandle
       /\ restoredLog' = IF b.error = "" /\ b.handle # 0
                           THEN Append(restoredLog, b.handle) ELSE restoredLog
       /\ log' = Append(log, [test |-> test, outcome |-> o, setUp |-> TRUE,
                               mismatch |-> RejectionMismatch(lastCall),
                               restored |-> b.error = "" /\ b.handle # 0])
       /\ finals' = IF outcome = "pass"
                      THEN [finals EXCEPT ![test] = @ \cup {evm}] ELSE finals
    /\ tstate' = "ready"
    /\ lastCall' = NoCall
    /\ UNCHANGED <<cls, test, ip, snapshot, locals, outcome, ran, faults, before,
                   runner, process, classError, exitCode>>
    /\ UNCHANGED <<dvars, xvars>>

AllTests == UNION {Tests(c) : c \in TestClasses}

InitTests ==
    /\ cls = ""
    /\ tstate = "idle"
    /\ test = ""
    /\ ip = 0
    /\ evm = Deployed("")
    /\ snaps = <<>>
    /\ nextHandle = 1
    /\ snapshot = 0
    /\ locals = NoLocals
    /\ outcome = ""
    /\ ran = 0
    /\ faults = 0
    /\ log = <<>>
    /\ restoredLog = <<>>
    /\ before = Deployed("")
    /\ finals = [t \in AllTests |-> {}]
    /\ lastCall = NoCall
    /\ runner = "start"
    /\ process = "none"
    /\ classError = FALSE
    /\ exitCode = -1
    /\ restores = <<>>

\* run_tests.py:14-23: launch ganache-cli; when Popen raises, the script
\* raises Exception(ganache_error_message) and the interpreter exits with 1.
LaunchBackend ==
    /\ runner = "start"
    /\ \/ /\ process' = "running"
          /\ runner' = "launched"
          /\ UNCHANGED exitCode
       \/ /\ runner' = "exited"
          /\ exitCode' = 1
          /\ UNCHANGED process
    /\ UNCHANGED <<cls, tstate, test, ip, evm, snaps, nextHandle, snapshot, locals,
                   outcome, ran, faults, log, restoredLog, before, finals, lastCall,
                   classError>>
    /\ UNCHANGED <<dvars, xvars>>

\* run_tests.py:25: load_test_settings(); an exception it raises leaves the
\* script, and the interpreter exits with 1.
LoadTestSettings ==
    /\ runner = "launched"
    /\ \/ /\ runner' = "loaded"
          /\ UNCHANGED exitCode
       \/ /\ runner' = "exited"
          /\ exitCode' = 1
    /\ UNCHANGED <<cls, tstate, test, ip, evm, snaps, nextHandle, snapshot, locals,
                   outcome, ran, faults, log, restoredLog, before, finals, lastCall,
                   process, classError>>
    /\ UNCHANGED <<dvars, xvars>>

\* run_tests.py:27-33: the suite is built from the enabled test modules and
\* TextTestRunner.run starts; an exception raised by getattr(tests, item) or
\* by the loader leaves the script, and the interpreter exits with 1.
LoadSuite ==
    /\ runner = "loaded"
    /\ \/ /\ runner' = "running"
          /\ UNCHANGED exitCode
       \/ /\ runner' = "exited"
          /\ exitCode' = 1
    /\ UNCHANGED <<cls, tstate, test, ip, evm, snaps, nextHandle, snapshot, locals,
                   outcome, ran, faults, log, restoredLog, before, finals, lastCall,
                   process, classError>>
    /\ UNCHANGED <<dvars, xvars>>

\* result.wasSuccessful(): no failure and no error was recorded.
wasSuccessfulAlways(l, ce) == TRUE

wasSuccessful(l, ce) == ~ce /\ \A i \in 1..Len(l) : l[i].outcome = "pass"

\* run_tests.py:34-38: run() returns when no unit is left (an empty suite, a
\* class whose setUpClass raised, or after the last unit); the script
\* terminates ganache and exits with 0 or 1.
Finish ==
    /\ runner = "running"
    /\ tstate \in {"idle", "ready", "classFailed"}
    /\ process' = "terminated"
    /\ exitCode' = IF wasSuccessful(log, classError) THEN 0 ELSE 1
    /\ runner' = "exited"
    /\ UNCHANGED <<cls, tstate, test, ip, evm, snaps, nextHandle, snapshot, locals,
                   outcome, ran, faults, log, restoredLog, before, finals, lastCall,
                   classError>>
    /\ UNCHANGED <<dvars, xvars>>

NextTests ==
    \/ LaunchBackend
    \/ LoadTestSettings
    \/ LoadSuite
    \/ SetUpClass
    \/ StartUnit
    \/ BodyStep
    \/ TearDown
    \/ Finish

\* ------------------------------------------------------------------------
\* ExternStateFeeTokenInterface: one lambda per contract function
\* ------------------------------------------------------------------------
\* A lambda of the facade: its attribute name, its parameters, the contract
\* function it builds, whether it ends in .call() or in
\* mine_tx(....transact({'from': ...})), and the parameter given as 'from'.
View(op, params) ==
    [op |-> op, params |-> params, fn |-> op, via |-> "call", from |-> ""]

Mutating(op, params) ==
    [op |-> op, params |-> params, fn |-> op, via |-> "mine_tx", from |-> "sender"]

\* The facade with transferFrom submitted from the approver frm.
FacadeOpsFromApprover ==
    {View("owner", <<>>), View("balanceOf", <<"account">>),
     Mutating("transfer", <<"sender", "to", "value">>),
     [op |-> "transferFrom", params |-> <<"sender", "frm", "to", "value">>,
      fn |-> "transferFrom", via |-> "mine_tx", from |-> "frm"]}

\* extern_state_fee_token_interface.py:14-49
FacadeOps ==
    {View("owner", <<>>),
     View("totalSupply", <<>>),
     View("state", <<>>),
     View("name", <<>>),
     View("symbol", <<>>),
     View("balanceOf", <<"account">>),
     View("allowance", <<"account", "spender">>),
     View("transferFeeRate", <<>>),
     View("feePool", <<>>),
     View("feeAuthority", <<>>),
     View("transferFeeIncurred", <<"value">>),
     View("transferPlusFee", <<"value">>),
     View("priceToSpend", <<"value">>),
     Mutating("nominateOwner", <<"sender", "address">>),
     Mutating("acceptOwnership", <<"sender">>),
     Mutating("setTransferFeeRate", <<"sender", "new_fee_rate">>),
     Mutating("setFeeAuthority", <<"sender", "new_fee_authority">>),
     Mutating("setState", <<"sender", "new_state">>),
     Mutating("transfer", <<"sender", "to", "value">>),
     Mutating("approve", <<"sender", "spender", "value">>),
     Mutating("transferFrom", <<"sender", "frm", "to", "value">>),
     Mutating("withdrawFee", <<"sender", "account", "value">>),
     Mutating("donateToFeePool", <<"sender", "value">>)}

\* The values a test passes as arguments of a facade operation.
FacadeArgs == {"MASTER", "DUMMY"}

\* The argument bound to the parameter p of f ("" when f has no such parameter).
ArgOf(f, args, p) ==
    IF \E i \in 1..Len(f.params) : f.params[i] = p
      THEN args[CHOOSE i \in 1..Len(f.params) : f.params[i] = p]
      ELSE ""

\* The value of an attribute of the instance: the constructor's string, the
\* contract object, or a lambda.
Str(x) == [kind |-> "str", val |-> x]
Lambda(x) == [kind |-> "lambda", val |-> x]
NoLabel == [kind |-> "", val |-> ""]

Assign(attr, val) == [attr |-> attr, val |-> val]

\* __init__(self, contract, name): the assignments to attributes of self, in
\* the order of lines 11-49.  The two parent constructors of lines 8-9 run
\* before them.
Construction(name) ==
    <<Assign("contract", [kind |-> "contract", val |-> ""]),
      Assign("name", Str(name)),
      Assign("owner", Lambda("owner")),
      Assign("totalSupply", Lambda("totalSupply")),
      Assign("state", Lambda("state")),
      Assign("name", Lambda("name")),
      Assign("symbol", Lambda("symbol")),
      Assign("balanceOf", Lambda("balanceOf")),
      Assign("allowance", Lambda("allowance")),
      Assign("transferFeeRate", Lambda("transferFeeRate")),
      Assign("feePool", Lambda("feePool")),
      Assign("feeAuthority", Lambda("feeAuthority")),
      Assign("transferFeeIncurred", Lambda("transferFeeIncurred")),
      Assign("transferPlusFee", Lambda("transferPlusFee")),
      Assign("priceToSpend", Lambda("priceToSpend")),
      Assign("nominateOwner", Lambda("nominateOwner")),
      Assign("acceptOwnership", Lambda("acceptOwnership")),
      Assign("setTransferFeeRate", Lambda("setTransferFeeRate")),
      Assign("setFeeAuthority", Lambda("setFeeAuthority")),
      Assign("setState", Lambda("setState")),
      Assign("transfer", Lambda("transfer")),
      Assign("approve", Lambda("approve")),
      Assign("transferFrom", Lambda("transferFrom")),
      Assign("withdrawFee", Lambda("withdrawFee")),
      Assign("donateToFeePool", Lambda("donateToFeePool"))>>

\* self.<attr> of the constructed instance: what was assigned to it last.
SelfAttr(name, attr) ==
    LET c == Construction(name)
        idx == {i \in 1..Len(c) : c[i].attr = attr}
        last == CHOOSE i \in idx : \A j \in idx : j <= i
    IN  c[last].val

\* The names tests give to the instances they construct.
ContractNames == {"ExternStateFeeToken", "Nomin"}

\* label: what the lambda passed to mine_tx as the contract name.
FacadeCall(f, args, stage, base, ver, label) ==
    [op |-> f.op, via |-> f.via, args |-> args, stage |-> stage, base |-> base,
     ver |-> ver, label |-> label]

NoFacadeCall ==
    [op |-> "", via |-> "", args |-> <<>>, stage |-> "idle", base |-> 0, ver |-> 0,
     label |-> NoLabel]

\* A test calls an operation of the facade.  A view evaluates .call() and
\* returns.  A mutating operation evaluates .transact({'from': ...}), which
\* hands one transaction to the backend or raises, and then enters mine_tx.
FacadeInvoke ==
    /\ fcall.stage = "idle"
    /\ fcount < MaxCalls
    /\ fcount' = fcount + 1
    /\ \E f \in FacadeOps : \E args \in [1..Len(f.params) -> FacadeArgs] :
         IF f.via = "call"
           THEN /\ fcall' = FacadeCall(f, args, "returned", Len(fchain), fversion, NoLabel)
                /\ UNCHANGED <<fchain, fversion>>
           ELSE \/ /\ fchain' = Append(fchain, [from |-> ArgOf(f, args, f.from),
                                                fn |-> f.fn, status |-> "pending"])
                   /\ fcall' = FacadeCall(f, args, "mine_tx", Len(fchain), fversion,
                                          SelfAttr(fname, "name"))
                   /\ UNCHANGED fversion
                \/ /\ fcall' = FacadeCall(f, args, "raised", Len(fchain), fversion, NoLabel)
                   /\ UNCHANGED <<fchain, fversion>>
    /\ UNCHANGED <<fname, restores, hvars>>
    /\ UNCHANGED <<dvars, tvars>>

\* mine_tx: the receipt of the submitted transaction arrives and mine_tx
\* returns it, or no receipt comes within the time limit and mine_tx raises.
FacadeMineTx ==
    /\ fcall.stage = "mine_tx"
    /\ \/ /\ fchain' = [fchain EXCEPT ![Len(fchain)].status = "ok"]
          /\ fversion' = fversion + 1
          /\ fcall' = [fcall EXCEPT !.stage = "returned"]
       \/ /\ fcall' = [fcall EXCEPT !.stage = "raised"]
          /\ UNCHANGED <<fchain, fversion>>
    /\ UNCHANGED <<fcount, fname, restores, hvars>>
    /\ UNCHANGED <<dvars, tvars>>

\* The test goes on after the operation has returned or raised.
FacadeDone ==
    /\ fcall.stage \in {"returned", "raised"}
    /\ fcall' = NoFacadeCall
    /\ UNCHANGED <<fchain, fversion, fcount, fname, restores, hvars>>
    /\ UNCHANGED <<dvars, tvars>>

InitFacade ==
    /\ InitDeploy /\ InitTests /\ print_addresses = FALSE
    /\ sig = NoError /\ txVerdict = "" /\ callVerdict = ""
    /\ fcall = NoFacadeCall /\ fchain = <<>> /\ fversion = 0 /\ fcount = 0
    /\ fname \in ContractNames

NextFacade ==
    \/ FacadeInvoke
    \/ FacadeMineTx
    \/ FacadeDone

\* ------------------------------------------------------------------------
\* The backend's checkpoint interface under any sequence of calls
\* ------------------------------------------------------------------------
\* Calls that change the TokenState contract between checkpoints.
BackendTxns ==
    {Txn("setBalanceOf", "DUMMY", "MASTER", "", UNIT),
     Txn("setBalanceOf", "DUMMY", "MASTER", "", 2 * UNIT),
     Txn("setAllowance", "DUMMY", "MASTER", "DUMMY", UNIT),
     Txn("setAssociatedContract", "MASTER", "ZERO_ADDRESS", "", 0)}

BackendSubmit ==
    /\ \E tx \in BackendTxns :
         /\ Accepts(evm, tx)
         /\ evm' = Effect(evm, tx)
    /\ UNCHANGED <<cls, tstate, test, ip, snaps, nextHandle, snapshot, locals, outcome,
                   ran, faults, log, restoredLog, before, finals, rvars>>
    /\ UNCHANGED <<dvars, xvars>>

\* take_snapshot()
BackendCheckpoint ==
    /\ nextHandle <= MaxHandles
    /\ LET b == take_snapshot(Backend(evm, snaps, nextHandle)) IN
       /\ snaps' = b.snaps
       /\ nextHandle' = b.nextHandle
    /\ UNCHANGED <<cls, tstate, test, ip, evm, snapshot, locals, outcome,
                   ran, faults, log, restoredLog, before, finals, rvars>>
    /\ UNCHANGED <<dvars, xvars>>

\* restore_snapshot(h), for any handle the backend has handed out
BackendRestore ==
    /\ Len(restores) < MaxRestores
    /\ \E h \in 1..(nextHandle - 1) :
         LET b == restore_snapshot(Backend(evm, snaps, nextHandle), h) IN
         /\ evm' = b.evm
         /\ snaps' = b.snaps
         /\ restores' = Append(restores, [handle |-> h, error |-> b.error])
    /\ UNCHANGED <<cls, tstate, test, ip, nextHandle, snapshot, locals, outcome,
                   ran, faults, log, restoredLog, before, finals, rvars>>
    /\ UNCHANGED <<dvars, hvars, fvars>>

InitBackend ==
    /\ InitDeploy /\ print_addresses = FALSE
    /\ cls = ""
    /\ tstate = "idle"
    /\ test = ""
    /\ ip = 0
    /\ evm = Deployed("TestTokenState")
    /\ snaps = <<>>
    /\ nextHandle = 1
    /\ snapshot = 0
    /\ locals = NoLocals
    /\ outcome = ""
    /\ ran = 0
    /\ faults = 0
    /\ log = <<>>
    /\ restoredLog = <<>>
    /\ before = Deployed("")
    /\ finals = [t \in AllTests |-> {}]
    /\ lastCall = NoCall
    /\ runner = "start"
    /\ process = "none"
    /\ classError = FALSE
    /\ exitCode = -1
    /\ restores = <<>>
    /\ sig = NoError /\ txVerdict = "" /\ callVerdict = ""
    /\ fcall = NoFacadeCall /\ fchain = <<>> /\ fversion = 0 /\ fcount = 0
    /\ fname = ""

NextBackend ==
    \/ BackendSubmit
    \/ BackendCheckpoint
    \/ BackendRestore

\* ------------------------------------------------------------------------
\* The helpers of test_utils.py applied to any error signal of the backend
\* ------------------------------------------------------------------------
\* JSON-RPC error codes: the VM error code of ganache (-32000), invalid
\* params (-32602), internal error (-32603), and a code of another backend.
Codes == {REVERT_CODE, -32602, -32603, 3}

\* What a call can raise: nothing; a ValueError, a BackendTimeout or a
\* TypeError, carrying a dictionary with 'message' and 'code' or not; raised
\* by transact() on submission or by mine_tx() while awaiting the receipt.
Signals ==
    {NoError}
    \cup {Sig(x, TRUE, r, c, a) : x \in {"ValueError", "BackendTimeout", "TypeError"},
                                  r \in BOOLEAN, c \in Codes,
                                  a \in {"transact", "mine_tx"}}
    \cup {Sig(x, FALSE, FALSE, 0, a) : x \in {"ValueError", "BackendTimeout", "TypeError"},
                                       a \in {"transact", "mine_tx"}}

\* assertTransactionReverts on a function whose submission raises sig.
HelperTransaction ==
    /\ txVerdict = ""
    /\ txVerdict' = assertTransactionReverts(sig)
    /\ UNCHANGED <<sig, callVerdict, restores, fvars>>
    /\ UNCHANGED <<dvars, tvars>>

\* assertCallReverts on a function whose call raises the same error.
HelperCall ==
    /\ callVerdict = ""
    /\ callVerdict' = assertCallReverts(IF sig.exc = "none" THEN sig
                                        ELSE [sig EXCEPT !.at = "call"])
    /\ UNCHANGED <<sig, txVerdict, restores, fvars>>
    /\ UNCHANGED <<dvars, tvars>>

InitHelpers ==
    /\ InitDeploy /\ InitTests /\ print_addresses = FALSE
    /\ sig \in Signals /\ txVerdict = "" /\ callVerdict = ""
    /\ fcall = NoFacadeCall /\ fchain = <<>> /\ fversion = 0 /\ fcount = 0
    /\ fname = ""

NextHelpers ==
    \/ HelperTransaction
    \/ HelperCall

Init ==
    /\ InitDeploy /\ InitTests
    /\ sig = NoError /\ txVerdict = "" /\ callVerdict = ""
    /\ fcall = NoFacadeCall /\ fchain = <<>> /\ fversion = 0 /\ fcount = 0
    /\ fname = ""

\* run_tests.py does not call deploy_havven.
InitRunTests ==
    /\ InitDeploy /\ InitTests /\ print_addresses = FALSE
    /\ sig = NoError /\ txVerdict = "" /\ callVerdict = ""
    /\ fcall = NoFacadeCall /\ fchain = <<>> /\ fversion = 0 /\ fcount = 0
    /\ fname = ""

SpecDeploy == Init /\ [][NextDeploy]_vars

SpecTests == InitRunTests /\ [][NextTests]_vars

SpecBackend == InitBackend /\ [][NextBackend]_vars

SpecHelpers == InitHelpers /\ [][NextHelpers]_vars

SpecFacade == InitFacade /\ [][NextFacade]_vars

\* ------------------------------------------------------------------------
\* Properties of deploy_havven
\* ------------------------------------------------------------------------
DeclaredOrder == <<"Havven", "EtherNomin", "Court", "HavvenEscrow">>
DeclaredLinks == <<"setNomin", "setEscrow", "setCourt">>

IsDeploy(t) == t.kind = "deploy"
IsCall(t) == t.kind = "call"

\* The address argument r, of a transaction at position i of the log, is the
\* address the backend assigned to a successful earlier deployment of r.of.
Assigned(r, i) ==
    /\ r.val # NoAddr
    /\ \E k \in 1..(i - 1) :
         /\ chain[k].kind = "deploy" /\ chain[k].name = r.of
         /\ chain[k].status = "ok" /\ chain[k].address = r.val

DeployedOk(a) ==
    \E k \in 1..Len(chain) :
        chain[k].kind = "deploy" /\ chain[k].name = a /\ chain[k].status = "ok"

\* C1: the deployments are submitted in the order Havven, EtherNomin, Court,
\* HavvenEscrow, and every address among a deployment's constructor arguments
\* was assigned by the backend to an earlier, successful deployment.
C1_OrderedDeployment ==
    LET deploys == SelectSeq(chain, IsDeploy) IN
    /\ Len(deploys) <= Len(DeclaredOrder)
    /\ \A i \in 1..Len(deploys) : deploys[i].name = DeclaredOrder[i]
    /\ \A i \in 1..Len(chain) :
         chain[i].kind = "deploy" =>
            \A j \in 1..Len(chain[i].args) :
               chain[i].args[j].isAddr => Assigned(chain[i].args[j], i)

C1_Witness ==
    \E i \in 1..Len(chain) :
        /\ chain[i].kind = "deploy" /\ chain[i].name = "HavvenEscrow"
        /\ chain[i].status = "ok"

\* C2: once a deployment step has failed, nothing later in the program is
\* submitted (no deployment, no link operation), the function has raised, and
\* "Deployment complete." is not printed.
C2_FailureStopsPipeline ==
    (failedAt # 0 /\ Program[failedAt].kind = "deploy") =>
        /\ phase = "raised"
        /\ pc = failedAt
        /\ \A i \in 1..Len(chain) : chain[i].at <= failedAt
        /\ \A i \in 1..Len(chain) : chain[i].kind # "call"
        /\ \A i \in 1..Len(output) : output[i] # "Deployment complete."
        /\ retval = <<>>

C2_Witness ==
    /\ failedAt # 0 /\ Program[failedAt].kind = "deploy"
    /\ Program[failedAt].name = "Court"
    /\ DeployedOk("Havven") /\ DeployedOk("EtherNomin")

\* The instances deployed successfully so far, with address and receipt.
Collected ==
    {[of |-> a, address |-> contract[a], receipt |-> txr[a]] :
        a \in {b \in ArtifactNames : DeployedOk(b)}}

\* C3: the failure that leaves deploy_havven names the failing step and
\* carries the addresses and receipts of exactly the instances deployed
\* before the failure.
C3_FailureCarriesPartial ==
    phase = "raised" =>
        /\ raised.step # ""
        /\ raised.partial = Collected

\* C4: a link operation is submitted only when all four instances are
\* deployed; its target and its address argument are addresses of deployed
\* instances.
C4_LinkAfterAllDeployed ==
    \A i \in 1..Len(chain) :
        chain[i].kind = "call" =>
            /\ \A a \in ArtifactNames :
                 \E k \in 1..(i - 1) :
                    /\ chain[k].kind = "deploy" /\ chain[k].name = a
                    /\ chain[k].status = "ok" /\ chain[k].address # NoAddr
            /\ Assigned([of |-> chain[i].target, isAddr |-> TRUE,
                         val |-> chain[i].targetAddr], i)
            /\ \A j \in 1..Len(chain[i].args) :
                 chain[i].args[j].isAddr /\ Assigned(chain[i].args[j], i)

C4_Witness ==
    \E i \in 1..Len(chain) : chain[i].kind = "call" /\ chain[i].name = "setCourt"

\* C5: a failure of a link operation (rejected on submission, or a failed
\* receipt) leaves deploy_havven as a failure that the attempt wrapper
\* attributed to the linking step, without "Deployment complete." and without
\* a return value.
C5_LinkFailureAttributed ==
    (failedAt # 0 /\ Program[failedAt].kind \in {"transact", "mine_txs"}) =>
        /\ phase = "raised"
        /\ raised.step = "Linking contracts... "
        /\ \A i \in 1..Len(output) : output[i] # "Deployment complete."
        /\ retval = <<>>

C7_ReturnsAll ==
    phase = "returned" =>
        \A a \in ArtifactNames :
            /\ \E i \in 1..Len(retval) :
                 retval[i].kind = "instance" /\ retval[i].of = a /\ retval[i].val = contract[a]
            /\ \E i \in 1..Len(retval) :
                 retval[i].kind = "receipt" /\ retval[i].of = a /\ retval[i].val = txr[a]

\* ------------------------------------------------------------------------
\* Properties of the test classes
\* ------------------------------------------------------------------------
UpTo(n) == [i \in 1..n |-> i]

SetUpSucceeded(r) == r.setUp

\* C8: in TestTokenState every unit whose setUp succeeded takes one
\* checkpoint and, whatever the outcome of its body, restores that handle
\* when it ends: while a unit runs its handle is the only checkpoint
\* outstanding, between units none is, and the handles restored so far are
\* those of the finished units, each once.
C8_OneCheckpointPerUnit ==
    cls = "TestTokenState" =>
        /\ Cardinality(DOMAIN snaps) <= 1
        /\ \A i, j \in 1..Len(restoredLog) : i # j => restoredLog[i] # restoredLog[j]
        /\ tstate \in {"body", "teardown"} =>
              /\ DOMAIN snaps = {snapshot}
              /\ nextHandle = snapshot + 1
              /\ restoredLog = UpTo(snapshot - 1)
              /\ Len(SelectSeq(log, SetUpSucceeded)) = snapshot - 1
        /\ tstate = "ready" =>
              /\ DOMAIN snaps = {}
              /\ restoredLog = UpTo(nextHandle - 1)
              /\ Len(SelectSeq(log, SetUpSucceeded)) = nextHandle - 1

C8_Witness ==
    /\ cls = "TestTokenState" /\ tstate = "ready"
    /\ Len(restoredLog) >= 2
    /\ \E i \in 1..Len(log) : log[i].setUp /\ log[i].outcome # "pass"
    /\ \E i \in 1..Len(log) : log[i].setUp /\ log[i].outcome = "pass"

\* C9: in TestTokenState the contract state after a unit's restore is the
\* state before its checkpoint, so between units and at the start of every
\* body it is the state right after deployment, and all passing runs of one
\* test end their body in the same state.
C9_RestoreUndoesUnit ==
    cls = "TestTokenState" =>
        /\ tstate = "ready" => (evm = Deployed(cls) /\ (ran > 0 => evm = before))
        /\ (tstate = "body" /\ ip = 1) => (evm = Deployed(cls) /\ before = evm)
        /\ \A t \in Tests(cls) : Cardinality(finals[t]) <= 1

C9_Witness ==
    /\ cls = "TestTokenState" /\ tstate = "ready"
    /\ \E i, j \in 1..Len(log) :
         /\ i < j
         /\ log[i].test = "test_setAssociatedContract" /\ log[i].outcome = "pass"
         /\ log[j].test = "test_setAssociatedContract" /\ log[j].outcome = "pass"
    /\ \E f \in finals["test_setAssociatedContract"] :
         /\ f # Deployed(cls)
         /\ f.associatedContract = "ZERO_ADDRESS"
         /\ f.balanceOf["DUMMY"] = UNIT

\* C10: in every test class, every unit's body starts in the contract state
\* of right after the class's deployment.
C10_UnitsStartFresh ==
    (tstate = "body" /\ ip = 1) => evm = Deployed(cls)

\* ------------------------------------------------------------------------
\* Properties of the backend's checkpoint interface
\* ------------------------------------------------------------------------
\* C11: a handle is single-use: once a restore with a handle has succeeded,
\* every later restore with the same handle fails with InvalidSnapshotError.
C11_HandleSingleUse ==
    \A i, j \in 1..Len(restores) :
        (i < j /\ restores[i].handle = restores[j].handle /\ restores[i].error = "")
            => restores[j].error = "InvalidSnapshotError"

C11_Witness ==
    \E i, j \in 1..Len(restores) :
        /\ i < j
        /\ restores[i].handle = restores[j].handle
        /\ restores[i].error = ""
        /\ restores[j].error = "InvalidSnapshotError"

\* C12: assertTransactionReverts fails the unit whenever the call it
\* submitted was accepted (nothing was raised by transact or mine_tx); it
\* never passes for a call that succeeded.
C12_AcceptedCallFailsUnit ==
    /\ (lastCall.kind = "reverts" /\ lastCall.sig.exc = "none")
          => (lastCall.verdict = "fail" /\ outcome = "fail" /\ tstate = "teardown")
    /\ \A i \in 1..Len(log) : log[i].mismatch => log[i].outcome # "pass"

\* test_fail_transfer after test_withdrawFee: the transfer it expects to be
\* rejected is accepted and applied, and the unit is recorded as failed.
C12_Witness ==
    /\ lastCall.kind = "reverts"
    /\ lastCall.sig.exc = "none"
    /\ lastCall.post # lastCall.pre
    /\ outcome = "fail"

\* A rejection by program logic: a ValueError whose args[0] has a 'message'
\* containing "revert" and the 'code' -32000.
IsLogicRejection(g) == g.exc = "ValueError" /\ g.isDict /\ g.revert /\ g.code = REVERT_CODE

\* C13: assertTransactionReverts passes only when what the backend raised is
\* a rejection by program logic, and such a rejection never makes it fail;
\* a timeout, a malformed-call error or an out-of-gas error never passes.
C13_PassIffLogicRejection ==
    txVerdict # "" => (txVerdict = "pass" <=> IsLogicRejection(sig))

\* The helper has judged an out-of-gas error (code -32000, no "revert" in
\* the message) and did not pass.
C13_Witness ==
    /\ sig.exc = "ValueError" /\ sig.isDict /\ ~sig.revert /\ sig.code = REVERT_CODE
    /\ txVerdict = "fail"

\* C14: for the same error (type, message, code) assertCallReverts and
\* assertTransactionReverts give the same verdict, whether the error was
\* raised on submission or while the receipt was awaited.
C14_SameVerdict ==
    (txVerdict # "" /\ callVerdict # "") => txVerdict = callVerdict

\* Both helpers have passed a rejection that transact() raised on submission.
C14_Witness ==
    /\ IsLogicRejection(sig) /\ sig.at = "transact"
    /\ txVerdict = "pass" /\ callVerdict = "pass"

\* C15: a rejection mismatch (the call handed to assertTransactionReverts
\* was accepted) fails exactly the asserting unit: the unit is recorded as
\* failed, its checkpoint has been restored when the next unit starts, and
\* the run exits unsuccessfully.
C15_MismatchContained ==
    \A i \in 1..Len(log) :
        log[i].mismatch =>
            /\ log[i].outcome = "fail"
            /\ log[i].restored
            /\ (runner = "exited" => exitCode # 0)

\* C17: the runner exits with 0 exactly when every unit of the suite it
\* ran succeeded; a failed unit, a unit or class in error, or an exception
\* that leaves the script before the run is reported makes it exit non-zero.
C17_ExitCodeReportsRun ==
    runner = "exited" =>
        /\ exitCode \in {0, 1}
        /\ exitCode = 0 <=>
             /\ process = "terminated"
             /\ ~classError
             /\ \A i \in 1..Len(log) : log[i].outcome = "pass"

\* A run of three units of which exactly the second failed has exited with 1.
C17_Witness ==
    /\ runner = "exited"
    /\ exitCode = 1
    /\ Len(log) = 3
    /\ log[1].outcome = "pass" /\ log[2].outcome = "fail" /\ log[3].outcome = "pass"

\* C21: once run_tests.py has launched ganache, the process is terminated
\* before the runner exits, on every exit path after the launch.
C21_BackendTerminatedAtExit ==
    runner = "exited" => process # "running"

\* ------------------------------------------------------------------------
\* Properties of the token contracts as the test classes observe them
\* ------------------------------------------------------------------------
\* C18: a transfer or transferFrom that the contract rejects leaves every
\* balance (of the sender or approver, the spender and the receiver), the
\* total supply and the fee pool as they were.
C18_RejectedTransferChangesNothing ==
    (/\ lastCall.kind = "reverts"
     /\ lastCall.tx.fn \in {"transfer", "transferFrom"}
     /\ IsLogicRejection(lastCall.sig)) =>
        /\ lastCall.post.balanceOf = lastCall.pre.balanceOf
        /\ lastCall.post.totalSupply = lastCall.pre.totalSupply
        /\ lastCall.post.feePool = lastCall.pre.feePool
        /\ evm = lastCall.pre

\* test_transferFrom_invalid has passed its assertions after the rejected
\* transferFrom of A5 on behalf of A4, who approved it but holds nothing.
C18_Witness ==
    /\ test = "test_transferFrom_invalid"
    /\ tstate = "teardown"
    /\ outcome = "pass"
    /\ lastCall.tx.fn = "transferFrom"
    /\ IsLogicRejection(lastCall.sig)
    /\ lastCall.pre.allowance[<<"A4", "A5">>] = UNIT

\* The sum of the balances of all accounts.
TotalBalance(bal) ==
    bal["MASTER"] + bal["DUMMY"] + bal["ZERO_ADDRESS"]
    + bal["A1"] + bal["A2"] + bal["A3"] + bal["A4"] + bal["A5"] + bal["A6"]

\* What the call c took from and gave to the account x.
Debit(c, x) ==
    CASE c.tx.fn = "transfer" /\ x = c.tx.sender -> transferPlusFee(c.pre, c.tx.v)
      [] c.tx.fn = "transferFrom" /\ x = c.tx.a -> transferPlusFee(c.pre, c.tx.v)
      [] OTHER -> 0

Credit(c, x) ==
    CASE c.tx.fn = "transfer" /\ x = c.tx.a -> c.tx.v
      [] c.tx.fn = "transferFrom" /\ x = c.tx.b -> c.tx.v
      [] c.tx.fn = "withdrawFee" /\ x = c.tx.a -> c.tx.v
      [] OTHER -> 0

PoolChange(c) ==
    CASE c.tx.fn \in {"transfer", "transferFrom"} -> transferFeeIncurred(c.pre, c.tx.v)
      [] c.tx.fn = "withdrawFee" -> 0 - c.tx.v
      [] OTHER -> 0

ViewNames ==
    {"owner", "totalSupply", "state", "name", "symbol", "balanceOf", "allowance",
     "transferFeeRate", "feePool", "feeAuthority", "transferFeeIncurred",
     "transferPlusFee", "priceToSpend"}

\* C16: every view operation of the facade takes no submitting identity and
\* leaves the backend as it was; every mutating operation takes the
\* submitting identity as its first argument, has submitted exactly one
\* transaction, from that identity, when it returns, and returns only once
\* that transaction's receipt is final.
C16_ViewsReadMutatorsSubmitOnce ==
    /\ \A f \in FacadeOps :
         /\ f.op \in ViewNames <=> f.via = "call"
         /\ f.via = "call" => \A i \in 1..Len(f.params) : f.params[i] # "sender"
         /\ f.via = "mine_tx" => (Len(f.params) >= 1 /\ f.params[1] = "sender")
    /\ (fcall.via = "call" /\ fcall.stage # "idle") =>
         /\ fcall.stage = "returned"
         /\ Len(fchain) = fcall.base
         /\ fversion = fcall.ver
    /\ (fcall.via = "mine_tx" /\ fcall.stage = "returned") =>
         /\ Len(fchain) = fcall.base + 1
         /\ fchain[Len(fchain)].from = fcall.args[1]
         /\ fchain[Len(fchain)].fn = fcall.op
         /\ fchain[Len(fchain)].status = "ok"
    /\ (fcall.via = "mine_tx" /\ fcall.stage # "idle") => Len(fchain) <= fcall.base + 1

\* transferFrom(sender, frm, to, value) has returned after an earlier
\* operation: its transaction is the second of the chain, sent by sender,
\* who is not the approver frm.
C16_Witness ==
    /\ fcall.op = "transferFrom"
    /\ fcall.stage = "returned"
    /\ fcall.args[1] # fcall.args[2]
    /\ Len(fchain) = 2
    /\ fchain[2].from = fcall.args[1]

\* C22: for every mutating operation of the facade, the contract name its
\* lambda passes to mine_tx is the name string given to the constructor.
C22_LabelIsConstructorName ==
    (fcall.via = "mine_tx" /\ fcall.label # NoLabel) => fcall.label = Str(fname)
====
